---- MODULE Spec2Model ----
(***************************************************************************)
(* Duplicate File Finder: the scanner (FileScanner), the hasher            *)
(* (HashCalculator), the resolver (DuplicateHandler) and the menu loop of  *)
(* main(), over a small POSIX-like filesystem with regular files, hard     *)
(* links and symbolic links.                                               *)
(***************************************************************************)
EXTENDS Integers, Sequences, FiniteSets, TLC

VARIABLES
    entries,          \* the filesystem: path -> directory entry (file or symlink)
    dirs,             \* the directories that exist
    env,              \* what the environment refuses (permissions, volumes, I/O errors)
    scannedFiles,     \* FileScanner::scannedFiles
    duplicateGroups,  \* FileScanner::duplicateGroups
    algorithm,        \* main: HashAlgorithm algorithm
    recursive,        \* main: bool recursive
    defaultAction,    \* main: DuplicateAction defaultAction
    targetDirectory,  \* main: std::string targetDirectory
    pc,               \* where main() waits for input
    gi,               \* index of the next group the pending loop of main handles
    out,              \* the diagnostics/progress lines of the last operation
    last,             \* the last operation, its arguments and the filesystem before it
    scans,            \* number of findDuplicates calls so far
    destination       \* moveDuplicate: finalPath once the conflict loop has chosen it

vars == <<entries, dirs, env, scannedFiles, duplicateGroups, algorithm, recursive,
          defaultAction, targetDirectory, pc, gi, out, last, scans, destination>>

(***************************************************************************)
(* Bounds of the model.                                                    *)
(***************************************************************************)
\* findDuplicates calls in one run of main()
MaxScans == 1
\* bytes per read of the hashing loop (the code reads 8192 at a time)
BufSize == 2
\* symbolic links followed by one path resolution before it fails with ELOOP
MaxSymlinks == 2
\* descriptors handed to findDuplicateGroups when it is examined on its own
MaxFiles == 5
\* findDuplicates calls in one run of main() when repeated scans are examined
MaxRescans == 2
\* highest suffix _k already taken in the target when moveDuplicate is examined on its own
MaxSuffix == 2
\* longest group passed to handleDuplicates when the two classes are called directly
MaxGroup == 3

(***************************************************************************)
(* Paths.  A path is a directory and a filename; a filename is a stem (a   *)
(* sequence of characters/tokens) and an extension, as std::filesystem     *)
(* splits it.                                                              *)
(***************************************************************************)
Name(stem, ext) == [stem |-> stem, ext |-> ext]

\* std::filesystem::path(dir) / filename
Join(dir, name) == [dir |-> dir, name |-> name]

filename(p) == p.name

parent_path(p) == p.dir

stem(n) == n.stem

extension(n) == n.ext

\* std::to_string(counter) as the characters appended to a stem
to_string(k) == <<ToString(k)>>

NoPath == Join("", Name(<<>>, ""))

\* the directory tree: the parent of each directory ("/" is the top)
Parent(d) ==
    CASE d = "sub" -> "root"
      [] d = "deep" -> "new"
      [] OTHER -> "/"

(***************************************************************************)
(* Directory entries and file data.                                        *)
(***************************************************************************)
RegFile(i) == [kind |-> "file", ino |-> i, to |-> NoPath]

Symlink(p) == [kind |-> "symlink", ino |-> 0, to |-> p]

\* the bytes stored in each inode (no operation of the program writes file data)
Data(i) ==
    CASE i = 1 -> <<1, 2, 3>>
      [] i = 2 -> <<1, 2, 3>>
      [] i = 3 -> <<1, 2, 3>>
      [] i = 4 -> <<3, 1, 1>>
      [] i = 5 -> <<3, 1, 1>>
      [] i = 6 -> <<1, 2>>
      [] i = 7 -> <<>>
      [] i = 8 -> <<>>
      [] OTHER -> <<2>>

\* the entry a path resolves to, following symbolic links: an entry of kind
\* "file", or [kind |-> "none"] (ENOENT), or [kind |-> "error"] (ELOOP)
RECURSIVE Resolve(_, _, _)
Resolve(fs, p, fuel) ==
    IF p \notin DOMAIN fs THEN [kind |-> "none", ino |-> 0, to |-> NoPath]
    ELSE IF fs[p].kind = "file" THEN fs[p]
    ELSE IF fuel = 0 THEN [kind |-> "error", ino |-> 0, to |-> NoPath]
    ELSE Resolve(fs, fs[p].to, fuel - 1)

\* std::filesystem::status(p).type(): "regular", "not_found", or "error" (throws)
StatusType(fs, p) ==
    LET r == Resolve(fs, p, MaxSymlinks)
    IN  CASE r.kind = "file" -> "regular"
          [] r.kind = "none" -> "not_found"
          [] OTHER -> "error"

\* std::filesystem::exists(p) for a file path (follows symbolic links)
exists(fs, p) == StatusType(fs, p) = "regular"

\* what is stored in the entry itself: the file's bytes, or the link's target
Stored(fs, p) ==
    IF p \notin DOMAIN fs THEN <<"absent">>
    ELSE IF fs[p].kind = "file" THEN <<"data", Data(fs[p].ino)>>
    ELSE <<"link", fs[p].to>>

\* the volume a directory is on
Volume(e, d) == IF d \in e.otherVolume THEN 1 ELSE 0

(***************************************************************************)
(* The std::filesystem calls the program makes.  Each returns the new      *)
(* entries and how the call ended: "ok", "false" (returned false) or       *)
(* "throw" (a filesystem_error).                                           *)
(***************************************************************************)
FsResult(res, fs) == [res |-> res, fs |-> fs]

\* std::filesystem::remove(p): removes the entry itself (never what a link names)
remove(fs, e, p) ==
    IF p \notin DOMAIN fs THEN FsResult("false", fs)
    ELSE IF parent_path(p) \in e.readonly THEN FsResult("throw", fs)
    ELSE FsResult("ok", [q \in DOMAIN fs \ {p} |-> fs[q]])

\* std::filesystem::rename(src, dst): replaces whatever entry dst holds
\* a rename that refuses a destination that is already taken
rename_noReplace(fs, ds, e, src, dst) ==
    IF src \notin DOMAIN fs \/ parent_path(dst) \notin ds \/ dst \in DOMAIN fs
    THEN FsResult("throw", fs)
    ELSE FsResult("ok", [q \in (DOMAIN fs \ {src}) \cup {dst} |->
                            IF q = dst THEN fs[src] ELSE fs[q]])

rename(fs, ds, e, src, dst) ==
    IF \/ src \notin DOMAIN fs
       \/ parent_path(dst) \notin ds
       \/ parent_path(src) \in e.readonly
       \/ parent_path(dst) \in e.readonly
       \/ Volume(e, parent_path(src)) # Volume(e, parent_path(dst))
    THEN FsResult("throw", fs)
    ELSE IF src = dst \/ (dst \in DOMAIN fs /\ fs[dst] = fs[src] /\ fs[src].kind = "file")
    THEN FsResult("ok", fs)
    ELSE FsResult("ok", [q \in (DOMAIN fs \ {src}) \cup {dst} |->
                            IF q = dst THEN fs[src] ELSE fs[q]])

\* std::filesystem::create_hard_link(to, newLink): a second entry for to's inode
create_hard_link(fs, ds, e, to, newLink) ==
    IF \/ to \notin DOMAIN fs
       \/ newLink \in DOMAIN fs
       \/ parent_path(newLink) \notin ds
       \/ parent_path(newLink) \in e.readonly
       \/ Volume(e, parent_path(to)) # Volume(e, parent_path(newLink))
    THEN FsResult("throw", fs)
    ELSE FsResult("ok", [q \in DOMAIN fs \cup {newLink} |->
                            IF q = newLink THEN fs[to] ELSE fs[q]])

\* the directories std::filesystem::create_directories(d) has to make
RECURSIVE MissingDirs(_, _)
MissingDirs(ds, d) ==
    IF d = "/" \/ d \in ds THEN {} ELSE {d} \cup MissingDirs(ds, Parent(d))

\* std::filesystem::create_directories(d): [res, dirs]
create_directories(ds, e, d) ==
    LET missing == MissingDirs(ds, d)
    IN  IF \E m \in missing : Parent(m) \in e.readonly
        THEN [res |-> "throw", dirs |-> ds]
        ELSE [res |-> "ok", dirs |-> ds \cup missing]

(***************************************************************************)
(* HashCalculator.  The digest is an ideal (collision-free) fold of the    *)
(* bytes fed to it, started from an algorithm-specific value, and rendered *)
(* as two hex characters per digest byte.                                  *)
(***************************************************************************)
Algorithms == {"MD5", "SHA256"}

\* EVP_DigestInit_ex
DigestInit(alg) == IF alg = "MD5" THEN 1 ELSE 2

\* EVP_DigestUpdate(mdctx, buffer, n)
RECURSIVE DigestUpdate(_, _)
DigestUpdate(st, chunk) ==
    IF chunk = <<>> THEN st ELSE DigestUpdate(st * 4 + Head(chunk), Tail(chunk))

\* EVP_DigestFinal_ex: the digest bytes (MD5 is the shorter digest)
DigestFinal(alg, st) ==
    IF alg = "MD5" THEN <<st % 256>> ELSE <<(st \div 256) % 256, st % 256>>

HexDigit(d) ==
    <<"0", "1", "2", "3", "4", "5", "6", "7", "8", "9", "a", "b", "c", "d", "e", "f">>[d + 1]

\* the ostringstream loop: std::hex, setw(2), setfill('0') per digest byte
RECURSIVE HexString(_)
HexString(bytes) ==
    IF bytes = <<>> THEN <<>>
    ELSE <<HexDigit(Head(bytes) \div 16), HexDigit(Head(bytes) % 16)>> \o HexString(Tail(bytes))

Min(a, b) == IF a < b THEN a ELSE b

\* the read loop of calculateMD5/calculateSHA256: file.read(buffer, BufSize) until
\* it fails, then the gcount() bytes of the last, short read.  errAt is the offset
\* at which the device fails (-1: never); a failed read delivers no bytes, ends the
\* loop like end-of-file does, and nothing tests for it.
RECURSIVE ReadLoop(_, _, _, _)
ReadLoop(bytes, pos, st, errAt) ==
    LET n == Min(BufSize, Len(bytes) - pos)
    IN  IF errAt >= pos /\ errAt < pos + n
        THEN st
        ELSE IF n < BufSize
        THEN DigestUpdate(st, SubSeq(bytes, pos + 1, pos + n))
        ELSE ReadLoop(bytes, pos + n, DigestUpdate(st, SubSeq(bytes, pos + 1, pos + n)), errAt)

\* the offset at which reading inode i fails, -1 when it reads to the end
ErrAt(e, i) == IF i \in DOMAIN e.ioError THEN e.ioError[i] ELSE -1

HashResult(ok, hash) == [ok |-> ok, hash |-> hash]

\* calculateMD5 / calculateSHA256: throws when the file cannot be opened
calculateDigest(fs, e, filePath, alg) ==
    LET r == Resolve(fs, filePath, MaxSymlinks)
    IN  IF r.kind # "file" \/ r.ino \in e.unreadable
        THEN HashResult(FALSE, <<>>)
        ELSE HashResult(TRUE,
                 HexString(DigestFinal(alg,
                     ReadLoop(Data(r.ino), 0, DigestInit(alg), ErrAt(e, r.ino)))))

\* HashCalculator::calculateHash
calculateHash(fs, e, filePath, alg) ==
    IF alg \in Algorithms THEN calculateDigest(fs, e, filePath, alg)
    ELSE HashResult(FALSE, <<>>)

\* the fingerprint of a whole byte sequence, as the hasher renders it
Fingerprint(alg, bytes) ==
    HexString(DigestFinal(alg, ReadLoop(bytes, 0, DigestInit(alg), -1)))

(***************************************************************************)
(* Diagnostics: one record per line the program prints.                    *)
(***************************************************************************)
Line(ev, path, to) == [ev |-> ev, path |-> path, to |-> to]

(***************************************************************************)
(* FileScanner.                                                            *)
(***************************************************************************)
FileInfo(path, size, hash) == [path |-> path, size |-> size, hash |-> hash]

EntryItem(p) == [t |-> "entry", path |-> p, dir |-> ""]

DirItem(c) == [t |-> "dir", path |-> NoPath, dir |-> c]

DeniedItem(c) == [t |-> "denied", path |-> NoPath, dir |-> c]

\* what a directory iterator over d yields: its files and links, and its subdirectories
ItemsOf(fs, ds, d) ==
    {EntryItem(p) : p \in {q \in DOMAIN fs : parent_path(q) = d}}
        \cup {DirItem(c) : c \in {x \in ds : Parent(x) = d}}

\* the orders in which a set can be enumerated
Perms(S) ==
    {f \in [1..Cardinality(S) -> S] : \A i, j \in 1..Cardinality(S) : f[i] = f[j] => i = j}

\* the sequences of entries fs::directory_iterator (recursive = FALSE) or
\* fs::recursive_directory_iterator (recursive = TRUE) over d can yield: the order
\* inside a directory is unspecified, a subdirectory's entries follow its own
\* entry, and a subdirectory that cannot be opened makes the increment throw
RECURSIVE Walks(_, _, _, _, _), Expand(_, _, _, _, _)
Walks(fs, ds, e, d, rec) ==
    UNION {Expand(fs, ds, e, rec, perm) : perm \in Perms(ItemsOf(fs, ds, d))}
Expand(fs, ds, e, rec, perm) ==
    IF perm = <<>> THEN {<<>>}
    ELSE LET h == Head(perm)
             heads == IF h.t = "dir" /\ rec
                      THEN IF h.dir \in e.noEnum
                           THEN {<<h, DeniedItem(h.dir)>>}
                           ELSE {<<h>> \o w : w \in Walks(fs, ds, e, h.dir, rec)}
                      ELSE {<<h>>}
         IN  {a \o b : a \in heads, b \in Expand(fs, ds, e, rec, Tail(perm))}

\* can the iterator over the scan root be constructed
CanEnumerate(ds, e, d) == d \in ds /\ d \notin e.noEnum

ScanState(files, lines, thrown) == [files |-> files, lines |-> lines, thrown |-> thrown]

\* FileScanner::processFile: any exception drops the file and prints a line
processFile(fs, e, st, filePath, alg) ==
    IF filePath \in e.noSize
    THEN ScanState(st.files, Append(st.lines, Line("ErrProcess", filePath, NoPath)), st.thrown)
    ELSE LET h == calculateHash(fs, e, filePath, alg)
         IN  IF ~h.ok
             THEN ScanState(st.files,
                            Append(st.lines, Line("ErrProcess", filePath, NoPath)), st.thrown)
             ELSE ScanState(
                      Append(st.files,
                             FileInfo(filePath,
                                      Len(Data(Resolve(fs, filePath, MaxSymlinks).ino)),
                                      h.hash)),
                      Append(st.lines, Line("Processed", filePath, NoPath)), st.thrown)

\* the body of the range-for loops of scanDirectory from item i on; thrown is the
\* filesystem_error that left the loop, if any
RECURSIVE ScanLoop(_, _, _, _, _, _)
ScanLoop(fs, e, walk, i, st, alg) ==
    IF i > Len(walk) THEN st
    ELSE LET it == walk[i]
         IN  IF it.t = "denied" THEN ScanState(st.files, st.lines, TRUE)
             ELSE IF it.t = "dir" THEN ScanLoop(fs, e, walk, i + 1, st, alg)
             ELSE LET ty == StatusType(fs, it.path)
                  IN  IF ty = "error" THEN ScanState(st.files, st.lines, TRUE)
                      ELSE IF ty = "regular"
                      THEN ScanLoop(fs, e, walk, i + 1, processFile(fs, e, st, it.path, alg), alg)
                      ELSE ScanLoop(fs, e, walk, i + 1, st, alg)

\* FileScanner::scanDirectory: the try block and its catch (fs::filesystem_error);
\* thrown = FALSE in the result: nothing leaves scanDirectory
scanDirectory(fs, ds, e, files, directoryPath, alg, walk) ==
    LET st0 == ScanState(files, <<>>, FALSE)
        st  == IF CanEnumerate(ds, e, directoryPath)
               THEN ScanLoop(fs, e, walk, 1, st0, alg)
               ELSE ScanState(files, <<>>, TRUE)
    IN  IF st.thrown
        THEN ScanState(st.files, Append(st.lines, Line("ErrScan", NoPath, NoPath)), FALSE)
        ELSE st

\* the walks the scan of directoryPath can take
ScanWalks(fs, ds, e, directoryPath, rec) ==
    IF CanEnumerate(ds, e, directoryPath) THEN Walks(fs, ds, e, directoryPath, rec)
    ELSE {<<>>}

\* the paths of the descriptors with fingerprint h, in scannedFiles order
RECURSIVE PathsWithHash(_, _)
PathsWithHash(files, h) ==
    IF files = <<>> THEN <<>>
    ELSE (IF Head(files).hash = h THEN <<Head(files).path>> ELSE <<>>)
             \o PathsWithHash(Tail(files), h)

\* DuplicateLists keyed by the files' size instead of their hash
DuplicateLists_bySize(files) ==
    {g \in {LET same == SelectSeq(files, LAMBDA f : f.size = files[i].size)
            IN  [k \in DOMAIN same |-> same[k].path] : i \in DOMAIN files} : Len(g) > 1}

\* DuplicateLists without the size() > 1 test
DuplicateLists_withSingles(files) ==
    {PathsWithHash(files, files[i].hash) : i \in DOMAIN files}

\* DuplicateLists with each list filled back to front
DuplicateLists_reversed(files) ==
    {[k \in 1..Len(g) |-> g[Len(g) + 1 - k]] :
        g \in {h \in {PathsWithHash(files, files[i].hash) : i \in DOMAIN files} : Len(h) > 1}}

\* hashToFiles, restricted to the entries findDuplicateGroups pushes
DuplicateLists(files) ==
    {g \in {PathsWithHash(files, files[i].hash) : i \in DOMAIN files} : Len(g) > 1}

\* no ordering at all
SortedBySize_unsorted(gs) == TRUE

\* the comparator of the std::sort: a.size() > b.size()
SortedBySize(gs) == \A i \in 1..(Len(gs) - 1) : ~(Len(gs[i + 1]) > Len(gs[i]))

\* FileScanner::findDuplicateGroups: the results it can leave in duplicateGroups.
\* The unordered_map is iterated in an unspecified order and std::sort is not
\* stable, so every arrangement the comparator accepts is possible.
findDuplicateGroups(files, groups) ==
    LET new == DuplicateLists(files)
    IN  {s \in {[i \in 1..(Len(groups) + Cardinality(new)) |-> (groups \o o)[pi[i]]] :
                    o \in Perms(new), pi \in Perms(1..(Len(groups) + Cardinality(new)))} :
            SortedBySize(s)}

(***************************************************************************)
(* DuplicateHandler.  Every operation returns the filesystem it leaves,    *)
(* its bool result and the lines it printed.                               *)
(***************************************************************************)
Actions == {"DELETE", "MOVE", "HARD_LINK", "SHOW_ONLY"}

Res(fs, ds, ok, lines) == [fs |-> fs, dirs |-> ds, ok |-> ok, lines |-> lines]

\* DuplicateHandler::deleteDuplicate
deleteDuplicate(fs, ds, e, filePath) ==
    LET r == remove(fs, e, filePath)
    IN  CASE r.res = "ok" -> Res(r.fs, ds, TRUE, <<Line("Deleted", filePath, NoPath)>>)
          [] r.res = "false" -> Res(fs, ds, FALSE, <<Line("ErrDelete", filePath, NoPath)>>)
          [] OTHER -> Res(fs, ds, FALSE, <<Line("ExcDelete", filePath, NoPath)>>)

\* the name-conflict loop of moveDuplicate: the first of newFilePath, stem_1.ext,
\* stem_2.ext, ... that exists() does not report; NoPath when exists() throws
RECURSIVE FinalPath(_, _, _, _, _)
FinalPath(fs, targetPath, newFilePath, finalPath, counter) ==
    LET ty == StatusType(fs, finalPath)
    IN  IF ty = "error" THEN NoPath
        ELSE IF ty = "not_found" THEN finalPath
        ELSE FinalPath(fs, targetPath, newFilePath,
                 Join(targetPath,
                      Name(stem(filename(newFilePath)) \o <<"_">> \o to_string(counter),
                           extension(filename(newFilePath)))),
                 counter + 1)

\* DuplicateHandler::moveDuplicate
moveDuplicate(fs, ds, e, filePath, targetDir) ==
    LET failed == Res(fs, ds, FALSE, <<Line("ExcMove", filePath, NoPath)>>)
        made == IF targetDir \in ds THEN [res |-> "ok", dirs |-> ds]
                ELSE create_directories(ds, e, targetDir)
        newFilePath == Join(targetDir, filename(filePath))
        finalPath == FinalPath(fs, targetDir, newFilePath, newFilePath, 1)
        r == rename(fs, made.dirs, e, filePath, finalPath)
    IN  IF made.res = "throw" THEN failed
        ELSE IF finalPath = NoPath \/ r.res = "throw"
        THEN Res(fs, made.dirs, FALSE, <<Line("ExcMove", filePath, NoPath)>>)
        ELSE Res(r.fs, made.dirs, TRUE, <<Line("Moved", filePath, finalPath)>>)

\* DuplicateHandler::createHardLink (its failure line names originalPath only)
createHardLink(fs, ds, e, originalPath, linkPath) ==
    LET linkDir == parent_path(linkPath)
        made == IF linkDir \in ds THEN [res |-> "ok", dirs |-> ds]
                ELSE create_directories(ds, e, linkDir)
        r == create_hard_link(fs, made.dirs, e, originalPath, linkPath)
    IN  IF made.res = "throw"
        THEN Res(fs, ds, FALSE, <<Line("ExcLink", originalPath, NoPath)>>)
        ELSE IF r.res = "throw"
        THEN Res(fs, made.dirs, FALSE, <<Line("ExcLink", originalPath, NoPath)>>)
        ELSE Res(r.fs, made.dirs, TRUE, <<Line("Linked", originalPath, linkPath)>>)

\* handleOne whose SHOW_ONLY case (and any other) removes the file
handleOne_showDeletes(fs, ds, e, duplicateFiles, filePath, action, targetDir) ==
    CASE action = "DELETE" -> deleteDuplicate(fs, ds, e, filePath)
      [] action = "MOVE" ->
            IF targetDir # ""
            THEN moveDuplicate(fs, ds, e, filePath, targetDir)
            ELSE Res(fs, ds, TRUE, <<>>)
      [] action = "HARD_LINK" ->
            IF targetDir # ""
            THEN LET linkPath == Join(targetDir, filename(filePath))
                     l == createHardLink(fs, ds, e, duplicateFiles[1], linkPath)
                     d == deleteDuplicate(l.fs, l.dirs, e, filePath)
                 IN  Res(d.fs, d.dirs, l.ok /\ d.ok, l.lines \o d.lines)
            ELSE Res(fs, ds, TRUE, <<>>)
      [] OTHER -> deleteDuplicate(fs, ds, e, filePath)

\* handleOne whose HARD_LINK case links to the secondary instead of the primary
handleOne_linkSecondary(fs, ds, e, duplicateFiles, filePath, action, targetDir) ==
    CASE action = "DELETE" -> deleteDuplicate(fs, ds, e, filePath)
      [] action = "MOVE" ->
            IF targetDir # ""
            THEN moveDuplicate(fs, ds, e, filePath, targetDir)
            ELSE Res(fs, ds, TRUE, <<>>)
      [] action = "HARD_LINK" ->
            IF targetDir # ""
            THEN LET linkPath == Join(targetDir, filename(filePath))
                     l == createHardLink(fs, ds, e, filePath, linkPath)
                     d == deleteDuplicate(l.fs, l.dirs, e, filePath)
                 IN  Res(d.fs, d.dirs, l.ok /\ d.ok, l.lines \o d.lines)
            ELSE Res(fs, ds, TRUE, <<>>)
      [] OTHER -> Res(fs, ds, TRUE, <<>>)

\* the body of the switch of handleDuplicates for one secondary
handleOne(fs, ds, e, duplicateFiles, filePath, action, targetDir) ==
    CASE action = "DELETE" -> deleteDuplicate(fs, ds, e, filePath)
      [] action = "MOVE" ->
            IF targetDir # ""
            THEN moveDuplicate(fs, ds, e, filePath, targetDir)
            ELSE Res(fs, ds, TRUE, <<>>)
      [] action = "HARD_LINK" ->
            IF targetDir # ""
            THEN LET linkPath == Join(targetDir, filename(filePath))
                     l == createHardLink(fs, ds, e, duplicateFiles[1], linkPath)
                     d == deleteDuplicate(l.fs, l.dirs, e, filePath)
                 IN  Res(d.fs, d.dirs, l.ok /\ d.ok, l.lines \o d.lines)
            ELSE Res(fs, ds, TRUE, <<>>)
      [] OTHER -> Res(fs, ds, TRUE, <<>>)

RECURSIVE handleLoop(_, _, _, _, _, _, _, _)
\* handleLoop left at the first secondary whose action fails
handleLoop_stopAtFailure(fs, ds, e, duplicateFiles, i, action, targetDir, lines) ==
    IF i > Len(duplicateFiles) THEN Res(fs, ds, TRUE, lines)
    ELSE LET r == handleOne(fs, ds, e, duplicateFiles, duplicateFiles[i], action,
                            targetDir)
         IN  IF ~r.ok THEN Res(r.fs, r.dirs, FALSE, lines \o r.lines)
             ELSE handleLoop(r.fs, r.dirs, e, duplicateFiles, i + 1, action, targetDir,
                             lines \o r.lines)

\* the loop of handleDuplicates over the secondaries, from index i on
handleLoop(fs, ds, e, duplicateFiles, i, action, targetDir, lines) ==
    IF i > Len(duplicateFiles) THEN Res(fs, ds, TRUE, lines)
    ELSE LET r == handleOne(fs, ds, e, duplicateFiles, duplicateFiles[i], action,
                            targetDir)
         IN  handleLoop(r.fs, r.dirs, e, duplicateFiles, i + 1, action, targetDir,
                        lines \o r.lines)

\* handleDuplicates with its loop started one index too late
handleDuplicates_offByOne(fs, ds, e, duplicateFiles, action, targetDir) ==
    IF Len(duplicateFiles) <= 1 THEN Res(fs, ds, TRUE, <<>>)
    ELSE handleLoop(fs, ds, e, duplicateFiles, 3, action, targetDir,
                    <<Line("Found", duplicateFiles[1], NoPath)>>)

\* DuplicateHandler::handleDuplicates: keep the first file, handle the rest
handleDuplicates(fs, ds, e, duplicateFiles, action, targetDir) ==
    IF Len(duplicateFiles) <= 1 THEN Res(fs, ds, TRUE, <<>>)
    ELSE handleLoop(fs, ds, e, duplicateFiles, 2, action, targetDir,
                    <<Line("Found", duplicateFiles[1], NoPath)>>)

\* DuplicateHandler::handleDuplicatesInteractive, given the choice and the target
\* directory read from std::cin
handleDuplicatesInteractive(fs, ds, e, duplicateFiles, choice, targetDir) ==
    IF Len(duplicateFiles) <= 1 THEN Res(fs, ds, TRUE, <<>>)
    ELSE CASE choice = 1 -> handleDuplicates(fs, ds, e, duplicateFiles, "DELETE", "")
           [] choice = 2 -> handleDuplicates(fs, ds, e, duplicateFiles, "MOVE", targetDir)
           [] choice = 3 -> handleDuplicates(fs, ds, e, duplicateFiles, "HARD_LINK", targetDir)
           [] OTHER -> Res(fs, ds, TRUE, <<Line("Skipping", duplicateFiles[1], NoPath)>>)

\* findDuplicates without the two clear() calls
findDuplicates_noClear(fs, ds, e, files, groups, directoryPath, alg, rec) ==
    UNION {
      LET sc == scanDirectory(fs, ds, e, files, directoryPath, alg, walk)
      IN  {[files |-> sc.files, groups |-> gs, lines |-> sc.lines,
            failed |-> sc.thrown, walk |-> walk] :
               gs \in findDuplicateGroups(sc.files, groups)}
      : walk \in ScanWalks(fs, ds, e, directoryPath, rec)}

\* FileScanner::findDuplicates: the results it can return, one per enumeration
\* order and per arrangement of the groups; files and groups are the members
\* before the call, cleared first.  failed: an exception reached the caller.
findDuplicates(fs, ds, e, files, groups, directoryPath, alg, rec) ==
    LET cleared == <<>>
    IN  UNION {
          LET sc == scanDirectory(fs, ds, e, cleared, directoryPath, alg, walk)
          IN  {[files |-> sc.files, groups |-> gs, lines |-> sc.lines,
                failed |-> sc.thrown, walk |-> walk] :
                   gs \in findDuplicateGroups(sc.files, cleared)}
          : walk \in ScanWalks(fs, ds, e, directoryPath, rec)}

(***************************************************************************)
(* The filesystems main() is started on.                                   *)
(***************************************************************************)
NoEnv ==
    [readonly |-> {}, otherVolume |-> {}, noEnum |-> {}, unreadable |-> {},
     ioError |-> <<>>, noSize |-> {}]

Txt(c) == Name(<<c>>, ".txt")

World(fs, ds, e) == [entries |-> fs, dirs |-> ds, env |-> e]

\* a.txt = b.txt, c.txt differs (test_files: the end-to-end example)
Basic ==
    World(Join("root", Txt("a")) :> RegFile(1) @@ Join("root", Txt("b")) :> RegFile(2)
              @@ Join("root", Txt("c")) :> RegFile(4),
          {"root"}, NoEnv)

\* three copies, two of them named a.txt, and an unrelated a.txt in the target
NameClash ==
    World(Join("root", Txt("a")) :> RegFile(1) @@ Join("root", Txt("b")) :> RegFile(3)
              @@ Join("sub", Txt("a")) :> RegFile(2) @@ Join("tgt", Txt("a")) :> RegFile(9),
          {"root", "sub", "tgt"}, NoEnv)

\* two pairs of copies spread over root and sub
TwoGroups ==
    World(Join("root", Txt("a")) :> RegFile(1) @@ Join("sub", Txt("b")) :> RegFile(2)
              @@ Join("root", Txt("b")) :> RegFile(4) @@ Join("sub", Txt("a")) :> RegFile(5),
          {"root", "sub"}, NoEnv)

\* a symbolic link sub/a.txt to root/x.txt, and a copy root/a.txt
Linked ==
    World(Join("root", Txt("x")) :> RegFile(1) @@ Join("root", Txt("a")) :> RegFile(2)
              @@ Join("sub", Txt("a")) :> Symlink(Join("root", Txt("x"))),
          {"root", "sub"}, NoEnv)

\* the target holds symbolic links whose target is gone
Dangling ==
    World(Join("root", Txt("a")) :> RegFile(1) @@ Join("root", Txt("b")) :> RegFile(2)
              @@ Join("tgt", Txt("a")) :> Symlink(Join("tgt", Txt("gone")))
              @@ Join("tgt", Txt("b")) :> Symlink(Join("tgt", Txt("gone"))),
          {"root", "tgt"}, NoEnv)

\* two empty files and a subdirectory that cannot be opened
DeniedSub ==
    World(Join("root", Txt("a")) :> RegFile(7) @@ Join("root", Txt("b")) :> RegFile(8)
              @@ Join("sub", Txt("c")) :> RegFile(3),
          {"root", "sub"}, [NoEnv EXCEPT !.noEnum = {"sub"}])

\* a symbolic link that names itself: status() fails with ELOOP
Loop ==
    World(Join("root", Txt("a")) :> RegFile(1) @@ Join("root", Txt("b")) :> RegFile(2)
              @@ Join("root", Txt("l")) :> Symlink(Join("root", Txt("l"))),
          {"root"}, NoEnv)

\* a.txt (1,2,3) fails to read after its first two bytes; b.txt is (1,2); the size
\* of c.txt cannot be read
ReadError ==
    World(Join("root", Txt("a")) :> RegFile(1) @@ Join("root", Txt("b")) :> RegFile(6)
              @@ Join("root", Txt("c")) :> RegFile(3),
          {"root"}, [NoEnv EXCEPT !.ioError = (1 :> 2), !.noSize = {Join("root", Txt("c"))}])

\* c.txt cannot be opened; the target is a mount point of another volume
OtherVolume ==
    World(Join("root", Txt("a")) :> RegFile(1) @@ Join("root", Txt("b")) :> RegFile(2)
              @@ Join("root", Txt("c")) :> RegFile(3),
          {"root", "tgt"}, [NoEnv EXCEPT !.unreadable = {3}, !.otherVolume = {"tgt"}])

\* three copies, two of them in a directory whose entries cannot be removed
ReadOnly ==
    World(Join("root", Txt("a")) :> RegFile(1) @@ Join("sub", Txt("b")) :> RegFile(2)
              @@ Join("sub", Txt("c")) :> RegFile(3),
          {"root", "sub"}, [NoEnv EXCEPT !.readonly = {"sub"}])

Worlds ==
    {Basic, NameClash, TwoGroups, Linked, Dangling, DeniedSub, Loop, ReadError,
     OtherVolume, ReadOnly}

(***************************************************************************)
(* main(): the menu loop.  pc is the read main() is blocked in.            *)
(***************************************************************************)
\* the directory paths typed at "Enter directory path to scan"
ScanInputs == {"root", "nowhere"}

\* the lines typed at "Enter target directory" (std::getline: may be empty)
TargetInputs == {"", "tgt", "sub"}

Last(op, group, action, target, dir, failed) ==
    [op |-> op, group |-> group, action |-> action, target |-> target, dir |-> dir,
     failed |-> failed, pre |-> entries, preDirs |-> dirs]

Init ==
    /\ \E w \in Worlds : entries = w.entries /\ dirs = w.dirs /\ env = w.env
    /\ scannedFiles = <<>>
    /\ duplicateGroups = <<>>
    /\ algorithm = "SHA256"
    /\ recursive = TRUE
    /\ defaultAction = "SHOW_ONLY"
    /\ targetDirectory = ""
    /\ pc = "menu"
    /\ gi = 0
    /\ out = <<>>
    /\ last = [op |-> "start", group |-> <<>>, action |-> "", target |-> "", dir |-> "",
               failed |-> FALSE, pre |-> entries, preDirs |-> dirs]
    /\ scans = 0
    /\ destination = NoPath

\* where main() goes after findDuplicates returned groups
AfterScan(groups, failed) ==
    IF failed \/ groups = <<>> THEN "menu"
    ELSE IF defaultAction = "SHOW_ONLY" THEN "interactive"
    ELSE IF defaultAction \in {"MOVE", "HARD_LINK"} THEN "askTarget"
    ELSE "auto"

\* menu choice 1: read the directory, scanner.findDuplicates(...)
FindDuplicatesStep(directoryPath) ==
    /\ pc = "menu"
    /\ \E r \in findDuplicates(entries, dirs, env, scannedFiles, duplicateGroups,
                               directoryPath, algorithm, recursive) :
          /\ scannedFiles' = r.files
          /\ duplicateGroups' = r.groups
          /\ out' = IF r.failed THEN Append(r.lines, Line("Error", NoPath, NoPath))
                    ELSE IF r.groups = <<>>
                    THEN Append(r.lines, Line("NoDuplicates", NoPath, NoPath))
                    ELSE r.lines
          /\ pc' = AfterScan(r.groups, r.failed)
          /\ gi' = IF AfterScan(r.groups, r.failed) = "menu" THEN 0 ELSE 1
          /\ last' = Last("scan", <<>>, "", "", directoryPath, r.failed)
    /\ scans' = scans + 1
    /\ UNCHANGED destination
    /\ UNCHANGED <<entries, dirs, env, algorithm, recursive, defaultAction, targetDirectory>>

\* menu choice 1, as long as the run has scans left
Scan(directoryPath) ==
    /\ scans < MaxScans
    /\ FindDuplicatesStep(directoryPath)

\* automatic mode: std::getline(std::cin, targetDirectory)
AskTarget(t) ==
    /\ pc = "askTarget"
    /\ targetDirectory' = t
    /\ pc' = "auto"
    /\ out' = <<>>
    /\ last' = Last("target", <<>>, defaultAction, t, "", FALSE)
    /\ UNCHANGED <<entries, dirs, env, scannedFiles, duplicateGroups, algorithm, recursive,
                   defaultAction, gi, scans, destination>>

\* a loop over the groups that reads the target directory again before each group
NextGroup_repeat(to) == IF gi < Len(duplicateGroups) THEN "askTarget" ELSE "menu"

\* where the loop over the groups goes after group gi
NextGroup(to) == IF gi < Len(duplicateGroups) THEN to ELSE "menu"

\* automatic mode: handler.handleDuplicates(group, defaultAction, targetDirectory)
AutoHandle ==
    /\ pc = "auto"
    /\ LET r == handleDuplicates(entries, dirs, env, duplicateGroups[gi], defaultAction,
                                 targetDirectory)
       IN  /\ entries' = r.fs
           /\ dirs' = r.dirs
           /\ out' = r.lines
    /\ last' = Last("handle", duplicateGroups[gi], defaultAction, targetDirectory, "",
                    FALSE)
    /\ pc' = NextGroup("auto")
    /\ gi' = IF gi < Len(duplicateGroups) THEN gi + 1 ELSE 0
    /\ UNCHANGED <<env, scannedFiles, duplicateGroups, algorithm, recursive, defaultAction,
                   targetDirectory, scans, destination>>

\* the action a choice of handleDuplicatesInteractive stands for
ChoiceAction(choice) ==
    CASE choice = 1 -> "DELETE" [] choice = 2 -> "MOVE" [] choice = 3 -> "HARD_LINK"
      [] OTHER -> "SKIP"

\* interactive mode: handler.handleDuplicatesInteractive(group), with the choice
\* and (for 2 and 3) the target directory it reads from std::cin
Interactive(choice, targetDir) ==
    /\ pc = "interactive"
    /\ LET r == handleDuplicatesInteractive(entries, dirs, env, duplicateGroups[gi], choice,
                                            targetDir)
       IN  /\ entries' = r.fs
           /\ dirs' = r.dirs
           /\ out' = r.lines
    /\ last' = Last("handle", duplicateGroups[gi], ChoiceAction(choice), targetDir, "",
                    FALSE)
    /\ pc' = NextGroup("interactive")
    /\ gi' = IF gi < Len(duplicateGroups) THEN gi + 1 ELSE 0
    /\ UNCHANGED <<env, scannedFiles, duplicateGroups, algorithm, recursive, defaultAction,
                   targetDirectory, scans, destination>>

\* configureSettings.  A setting changed after the last scan that MaxScans allows is
\* never used again, so the model stops configuring there.
\* configureSettings choice 1: algoChoice 1 is MD5, anything else SHA256
ChangeAlgorithm(algoChoice) ==
    /\ pc = "menu"
    /\ scans < MaxScans
    /\ algorithm' = IF algoChoice = 1 THEN "MD5" ELSE "SHA256"
    /\ out' = <<>>
    /\ last' = Last("configure", <<>>, "", "", "", FALSE)
    /\ UNCHANGED <<entries, dirs, env, scannedFiles, duplicateGroups, recursive,
                   defaultAction, targetDirectory, pc, gi, scans, destination>>

\* configureSettings choice 2
ToggleRecursiveStep ==
    /\ pc = "menu"
    /\ recursive' = ~recursive
    /\ out' = <<>>
    /\ last' = Last("configure", <<>>, "", "", "", FALSE)
    /\ UNCHANGED <<entries, dirs, env, scannedFiles, duplicateGroups, algorithm,
                   defaultAction, targetDirectory, pc, gi, scans, destination>>

ToggleRecursive ==
    /\ scans < MaxScans
    /\ ToggleRecursiveStep

\* configureSettings choice 3: 1..4 select an action, anything else changes nothing
ChangeAction(actionChoice) ==
    /\ pc = "menu"
    /\ scans < MaxScans
    /\ defaultAction' = CASE actionChoice = 1 -> "SHOW_ONLY"
                          [] actionChoice = 2 -> "DELETE"
                          [] actionChoice = 3 -> "MOVE"
                          [] actionChoice = 4 -> "HARD_LINK"
                          [] OTHER -> defaultAction
    /\ out' = <<>>
    /\ last' = Last("configure", <<>>, "", "", "", FALSE)
    /\ UNCHANGED <<entries, dirs, env, scannedFiles, duplicateGroups, algorithm, recursive,
                   targetDirectory, pc, gi, scans, destination>>

\* menu choice 3: showStatistics(scanner)
ShowStatistics ==
    /\ pc = "menu"
    /\ out' = <<[ev |-> "Statistics", path |-> NoPath, to |-> NoPath,
                 files |-> Len(scannedFiles), groups |-> Len(duplicateGroups)]>>
    /\ last' = Last("statistics", <<>>, "", "", "", FALSE)
    /\ UNCHANGED <<entries, dirs, env, scannedFiles, duplicateGroups, algorithm, recursive,
                   defaultAction, targetDirectory, pc, gi, scans, destination>>

\* menu choice 4
Exit ==
    /\ pc = "menu"
    /\ pc' = "done"
    /\ out' = <<>>
    /\ last' = Last("exit", <<>>, "", "", "", FALSE)
    /\ UNCHANGED <<entries, dirs, env, scannedFiles, duplicateGroups, algorithm, recursive,
                   defaultAction, targetDirectory, gi, scans, destination>>

Next ==
    \/ \E d \in ScanInputs : Scan(d)
    \/ \E t \in TargetInputs : AskTarget(t)
    \/ AutoHandle
    \/ \E c \in {1, 4, 5} : Interactive(c, "")
    \/ \E c \in {2, 3}, t \in TargetInputs \ {""} : Interactive(c, t)
    \/ \E a \in {1, 2} : ChangeAlgorithm(a)
    \/ ToggleRecursive
    \/ \E a \in 1..5 : ChangeAction(a)
    \/ ShowStatistics
    \/ Exit

Spec == Init /\ [][Next]_vars

(***************************************************************************)
(* findDuplicateGroups on its own: scannedFiles is any sequence of up to   *)
(* MaxFiles descriptors as processFile builds them, for files whose        *)
(* contents are drawn from three byte strings.                             *)
(***************************************************************************)
\* the i-th file processed: root/<i>.txt
NthPath(i) == Join("root", Name(<<ToString(i)>>, ".txt"))

\* files with the three contents (1,2,3), (3,1,1) and the empty one
ContentInodes == {1, 4, 7}

\* the descriptors processFile appends for files with these inodes, in this order
Descriptors(inos, alg) ==
    [i \in DOMAIN inos |->
        FileInfo(NthPath(i), Len(Data(inos[i])), Fingerprint(alg, Data(inos[i])))]

GroupInit ==
    /\ \E n \in 0..MaxFiles : \E inos \in [1..n -> ContentInodes] : \E alg \in Algorithms :
          /\ entries = [q \in {NthPath(i) : i \in 1..n} |->
                           RegFile(inos[CHOOSE i \in 1..n : NthPath(i) = q])]
          /\ scannedFiles = Descriptors(inos, alg)
          /\ algorithm = alg
    /\ dirs = {"root"}
    /\ env = NoEnv
    /\ duplicateGroups = <<>>
    /\ recursive = TRUE
    /\ defaultAction = "SHOW_ONLY"
    /\ targetDirectory = ""
    /\ pc = "grouping"
    /\ gi = 0
    /\ out = <<>>
    /\ last = [op |-> "start", group |-> <<>>, action |-> "", target |-> "", dir |-> "",
               failed |-> FALSE, pre |-> entries, preDirs |-> dirs]
    /\ scans = 0
    /\ destination = NoPath

\* findDuplicates line 20: findDuplicateGroups() on the descriptors collected
Group ==
    /\ pc = "grouping"
    /\ duplicateGroups' \in findDuplicateGroups(scannedFiles, duplicateGroups)
    /\ pc' = "grouped"
    /\ out' = <<>>
    /\ last' = Last("group", <<>>, "", "", "root", FALSE)
    /\ UNCHANGED <<entries, dirs, env, scannedFiles, algorithm, recursive, defaultAction,
                   targetDirectory, gi, scans, destination>>

GroupNext == Group

GroupSpec == GroupInit /\ [][GroupNext]_vars

(***************************************************************************)
(* Repeated scans with one FileScanner: main() scanning up to MaxRescans   *)
(* times, with the groups of a scan deleted or skipped and the recursive   *)
(* flag changed in between.                                                *)
(***************************************************************************)
RescanWorlds == {Basic, NameClash, TwoGroups, DeniedSub}

RescanInit ==
    /\ Init
    /\ \E w \in RescanWorlds : entries = w.entries /\ dirs = w.dirs /\ env = w.env

Rescan(directoryPath) ==
    /\ scans < MaxRescans
    /\ FindDuplicatesStep(directoryPath)

RetoggleRecursive ==
    /\ scans < MaxRescans
    /\ ToggleRecursiveStep

RescanNext ==
    \/ \E d \in ScanInputs : Rescan(d)
    \/ RetoggleRecursive
    \/ \E c \in {1, 4} : Interactive(c, "")
    \/ ShowStatistics

RescanSpec == RescanInit /\ [][RescanNext]_vars

(***************************************************************************)
(* moveDuplicate on its own: root/a.txt is moved to a target directory    *)
(* that exists or not, whose names a.txt, a_1.txt, ... a_MaxSuffix.txt are *)
(* free, held by a regular file or held by a dangling symbolic link.       *)
(***************************************************************************)
MoveSource == Join("root", Txt("a"))

MoveTargets == {"tgt", "deep"}

\* the names the conflict loop tries in target directory t: a.txt, a_1.txt, ...
Cand(t, k) ==
    IF k = 0 THEN Join(t, filename(MoveSource))
    ELSE Join(t, Name(stem(filename(MoveSource)) \o <<"_">> \o to_string(k),
                      extension(filename(MoveSource))))

\* the directory sets in which every directory has its parent
MoveDirs ==
    {S \cup {"root"} : S \in {T \in SUBSET {"tgt", "new", "deep"} : "deep" \in T => "new" \in T}}

\* the target's entries for a choice of what holds each candidate name
Held(t, held) ==
    [q \in {Cand(t, k) : k \in {j \in DOMAIN held : held[j] # "free"}} |->
        LET k == CHOOSE j \in DOMAIN held : Cand(t, j) = q
        IN  IF held[k] = "file" THEN RegFile(9) ELSE Symlink(Join(t, Txt("gone")))]

MoveInit ==
    /\ \E t \in MoveTargets, ds \in MoveDirs :
       \E held \in [0..MaxSuffix -> {"free", "file", "dangling"}] :
          /\ t \notin ds => \A k \in DOMAIN held : held[k] = "free"
          /\ targetDirectory = t
          /\ dirs = ds
          /\ entries = (MoveSource :> RegFile(1)) @@ Held(t, held)
    /\ env = NoEnv
    /\ scannedFiles = <<>>
    /\ duplicateGroups = <<>>
    /\ algorithm = "SHA256"
    /\ recursive = TRUE
    /\ defaultAction = "MOVE"
    /\ pc = "moving"
    /\ gi = 0
    /\ out = <<>>
    /\ last = [op |-> "start", group |-> <<>>, action |-> "", target |-> "", dir |-> "",
               failed |-> FALSE, pre |-> entries, preDirs |-> dirs]
    /\ scans = 0
    /\ destination = NoPath

\* handleDuplicates line 207: moveDuplicate(filePath, targetDirectory)
Move ==
    /\ pc = "moving"
    /\ LET r == moveDuplicate(entries, dirs, env, MoveSource, targetDirectory)
       IN  /\ entries' = r.fs
           /\ dirs' = r.dirs
           /\ out' = r.lines
    /\ pc' = "moved"
    /\ last' = Last("move", <<MoveSource>>, "MOVE", targetDirectory, "", FALSE)
    /\ UNCHANGED <<env, scannedFiles, duplicateGroups, algorithm, recursive, defaultAction,
                   targetDirectory, gi, scans, destination>>

MoveNext == Move

MoveSpec == MoveInit /\ [][MoveNext]_vars

(***************************************************************************)
(* moveDuplicate next to another process that creates files in the target  *)
(* directory.  The conflict loop (lines 150-158) and the rename (line 160) *)
(* are separate system calls, so the other process can run between them.   *)
(***************************************************************************)
\* the file the other process creates between the conflict loop and the rename
WriterFile == RegFile(8)

\* the file the other process creates before the conflict loop
EarlierFile == RegFile(7)

\* moveDuplicate lines 144-158: create the target directory, choose finalPath
MoveCheck ==
    /\ pc = "moving"
    /\ LET made == IF targetDirectory \in dirs THEN [res |-> "ok", dirs |-> dirs]
                   ELSE create_directories(dirs, env, targetDirectory)
           newFilePath == Join(targetDirectory, filename(MoveSource))
           finalPath == FinalPath(entries, targetDirectory, newFilePath, newFilePath, 1)
       IN  IF made.res = "throw" \/ finalPath = NoPath
           THEN /\ dirs' = IF made.res = "throw" THEN dirs ELSE made.dirs
                /\ destination' = NoPath
                /\ out' = <<Line("ExcMove", MoveSource, NoPath)>>
                /\ pc' = "moved"
                /\ last' = Last("move", <<MoveSource>>, "MOVE", targetDirectory, "", TRUE)
           ELSE /\ dirs' = made.dirs
                /\ destination' = finalPath
                /\ out' = <<>>
                /\ pc' = "renaming"
                /\ last' = Last("check", <<MoveSource>>, "MOVE", targetDirectory, "", FALSE)
    /\ UNCHANGED <<entries, env, scannedFiles, duplicateGroups, algorithm, recursive,
                   defaultAction, targetDirectory, gi, scans>>

\* the other process creates a file under a free candidate name of the target
\* directory, once before the conflict loop or once between the loop and the rename
WriterCreate(k) ==
    /\ \/ pc = "moving" /\ last.op = "start"
       \/ pc = "renaming" /\ last.op = "check"
    /\ targetDirectory \in dirs
    /\ Cand(targetDirectory, k) \notin DOMAIN entries
    /\ entries' = (Cand(targetDirectory, k) :>
                        (IF pc = "renaming" THEN WriterFile ELSE EarlierFile)) @@ entries
    /\ out' = <<>>
    /\ last' = Last("write", <<Cand(targetDirectory, k)>>, "", targetDirectory, "", FALSE)
    /\ UNCHANGED <<dirs, env, scannedFiles, duplicateGroups, algorithm, recursive,
                   defaultAction, targetDirectory, pc, gi, scans, destination>>

\* moveDuplicate lines 160-162: rename filePath to the finalPath chosen before
MoveRename ==
    /\ pc = "renaming"
    /\ LET r == rename(entries, dirs, env, MoveSource, destination)
       IN  /\ entries' = r.fs
           /\ out' = IF r.res = "throw" THEN <<Line("ExcMove", MoveSource, NoPath)>>
                     ELSE <<Line("Moved", MoveSource, destination)>>
           /\ last' = Last("move", <<MoveSource>>, "MOVE", targetDirectory, "",
                           r.res = "throw")
    /\ pc' = "moved"
    /\ UNCHANGED <<dirs, env, scannedFiles, duplicateGroups, algorithm, recursive,
                   defaultAction, targetDirectory, gi, scans, destination>>

RaceNext ==
    \/ MoveCheck
    \/ \E k \in 0..MaxSuffix + 1 : WriterCreate(k)
    \/ MoveRename

RaceSpec == MoveInit /\ [][RaceNext]_vars

(***************************************************************************)
(* A run of main() that scans a directory, deletes the secondaries of      *)
(* every group and scans the directory again.                              *)
(***************************************************************************)
FixpointNext ==
    \/ ChangeAction(2)
    \/ \E a \in {1, 2} : ChangeAlgorithm(a)
    \/ ToggleRecursive
    \/ Rescan("root")
    \/ AutoHandle
    \/ Interactive(1, "")

FixpointSpec == Init /\ [][FixpointNext]_vars

(***************************************************************************)
(* The two classes called directly, without main(): one call of            *)
(* FileScanner::findDuplicates or of DuplicateHandler::handleDuplicates    *)
(* with any argument values, among them enum values that are none of the   *)
(* enumerators.                                                            *)
(***************************************************************************)
\* a HashAlgorithm / DuplicateAction value that is no enumerator
Unrecognized == "UNRECOGNIZED"

\* the groups of distinct existing paths a caller can pass
GroupsOver(fs) ==
    UNION {{g \in [1..n -> DOMAIN fs] : \A i, j \in 1..n : g[i] = g[j] => i = j} :
              n \in 2..MaxGroup}

CoreInit ==
    /\ \E w \in Worlds : entries = w.entries /\ dirs = w.dirs /\ env = w.env
    /\ scannedFiles = <<>>
    /\ duplicateGroups = <<>>
    /\ algorithm = "SHA256"
    /\ recursive = TRUE
    /\ defaultAction = "SHOW_ONLY"
    /\ targetDirectory = ""
    /\ pc = "call"
    /\ gi = 0
    /\ out = <<>>
    /\ last = [op |-> "start", group |-> <<>>, action |-> "", target |-> "", dir |-> "",
               failed |-> FALSE, pre |-> entries, preDirs |-> dirs]
    /\ scans = 0
    /\ destination = NoPath

\* scanner.findDuplicates(directoryPath, alg, rec)
CallFindDuplicates(directoryPath, alg, rec) ==
    /\ pc = "call"
    /\ \E r \in findDuplicates(entries, dirs, env, scannedFiles, duplicateGroups,
                               directoryPath, alg, rec) :
          /\ scannedFiles' = r.files
          /\ duplicateGroups' = r.groups
          /\ out' = r.lines
          /\ last' = Last("scan", <<>>, "", "", directoryPath, r.failed)
    /\ algorithm' = alg
    /\ recursive' = rec
    /\ pc' = "called"
    /\ scans' = scans + 1
    /\ UNCHANGED destination
    /\ UNCHANGED <<entries, dirs, env, defaultAction, targetDirectory, gi>>

\* handler.handleDuplicates(duplicateFiles, action, targetDir)
CallHandleDuplicates(duplicateFiles, action, targetDir) ==
    /\ pc = "call"
    /\ LET r == handleDuplicates(entries, dirs, env, duplicateFiles, action, targetDir)
       IN  /\ entries' = r.fs
           /\ dirs' = r.dirs
           /\ out' = r.lines
    /\ last' = Last("handle", duplicateFiles, action, targetDir, "", FALSE)
    /\ pc' = "called"
    /\ UNCHANGED <<env, scannedFiles, duplicateGroups, algorithm, recursive, defaultAction,
                   targetDirectory, gi, scans, destination>>

CoreNext ==
    \/ \E d \in ScanInputs, alg \in Algorithms \cup {Unrecognized}, rec \in BOOLEAN :
          CallFindDuplicates(d, alg, rec)
    \/ \E g \in GroupsOver(entries), a \in Actions \cup {Unrecognized},
          t \in TargetInputs :
          CallHandleDuplicates(g, a, t)

CoreSpec == CoreInit /\ [][CoreNext]_vars

(***************************************************************************)
(* Vocabulary of the properties.                                           *)
(***************************************************************************)
\* the last step was a resolution pass with this action over a real group
Handled(action) ==
    last.op = "handle" /\ last.action = action /\ Len(last.group) >= 2

Primary == last.group[1]

Secondaries == {last.group[i] : i \in 2..Len(last.group)}

\* the lines of the last operation with this event
LinesOf(ev) == {i \in DOMAIN out : out[i].ev = ev}

\* the last step was a scan whose root could be enumerated
Scanned == last.op = "scan" /\ CanEnumerate(dirs, env, last.dir)

ScannedPaths == {scannedFiles[i].path : i \in DOMAIN scannedFiles}

GroupedPaths ==
    UNION {{duplicateGroups[g][i] : i \in DOMAIN duplicateGroups[g]} :
               g \in DOMAIN duplicateGroups}

RECURSIVE IsUnder(_, _)
IsUnder(d, root) == d = root \/ (d # "/" /\ IsUnder(Parent(d), root))

\* the directories on the way from the scan root down to d (the root excluded)
RECURSIVE DirsBelow(_, _)
DirsBelow(d, root) == IF d = root \/ d = "/" THEN {} ELSE {d} \cup DirsBelow(Parent(d), root)

\* p is one of the entries the scan of last.dir is asked to visit
InScope(p) ==
    IF recursive THEN IsUnder(parent_path(p), last.dir) ELSE parent_path(p) = last.dir

\* a regular file that nothing prevents from being stat-ed, opened and read
Healthy(p) ==
    /\ entries[p].kind = "file"
    /\ entries[p].ino \notin env.unreadable
    /\ entries[p].ino \notin DOMAIN env.ioError
    /\ p \notin env.noSize

\* an entry whose classification, stat, open or read fails
Failing(p) ==
    \/ StatusType(entries, p) = "error"
    \/ /\ entries[p].kind = "file"
       /\ \/ entries[p].ino \in env.unreadable
          \/ entries[p].ino \in DOMAIN env.ioError
          \/ p \in env.noSize

(***************************************************************************)
(* C1: after handleDuplicates returns, whatever the action and the target, *)
(* the directory entry at the group's first path (the primary) is still    *)
(* there, is the entry it was before the pass and stores the same content: *)
(* nothing deleted, renamed or overwrote it.                               *)
(***************************************************************************)
C1_PrimaryUntouched ==
    (last.op = "handle" /\ Len(last.group) >= 2 /\ Primary \in DOMAIN last.pre)
        => /\ Primary \in DOMAIN entries
           /\ entries[Primary] = last.pre[Primary]
           /\ Stored(entries, Primary) = Stored(last.pre, Primary)

(***************************************************************************)
(* C2: after a delete pass over a group whose n files all existed and in   *)
(* which no removal failed, the primary is on disk and none of the other   *)
(* n-1 paths of the group exists any more.                                 *)
(***************************************************************************)
C2_DeleteLeavesOnlyPrimary ==
    (/\ Handled("DELETE")
     /\ \A i \in DOMAIN last.group : last.group[i] \in DOMAIN last.pre
     /\ LinesOf("ErrDelete") \cup LinesOf("ExcDelete") = {})
        => /\ Primary \in DOMAIN entries
           /\ \A sec \in Secondaries : sec \notin DOMAIN entries
           /\ Cardinality({p \in DOMAIN last.pre : p \notin DOMAIN entries})
                  = Len(last.group) - 1

\* a delete pass over a group of three existing files, without a failure
C2_Witness ==
    /\ Handled("DELETE")
    /\ Len(last.group) = 3
    /\ \A i \in DOMAIN last.group : last.group[i] \in DOMAIN last.pre
    /\ LinesOf("ErrDelete") \cup LinesOf("ExcDelete") = {}
    /\ Cardinality(LinesOf("Deleted")) = 2

(***************************************************************************)
(* C3: a move pass never overwrites: every entry that was in the target    *)
(* directory before the pass (and is not itself a secondary being moved)   *)
(* is still there unchanged, and the moved secondaries ended at pairwise   *)
(* distinct paths that were free before the pass.                          *)
(***************************************************************************)
C3_MoveNeverOverwrites ==
    (Handled("MOVE") /\ last.target # "")
        => /\ \A p \in DOMAIN last.pre :
                 (parent_path(p) = last.target /\ p \notin Secondaries)
                     => (p \in DOMAIN entries /\ entries[p] = last.pre[p])
           /\ \A i \in LinesOf("Moved") :
                 /\ out[i].to \in DOMAIN entries
                 /\ entries[out[i].to] = last.pre[out[i].path]
                 /\ \A j \in LinesOf("Moved") : out[j].to = out[i].to => j = i

(***************************************************************************)
(* C4: in a hard-link pass a secondary is deleted only after its link was  *)
(* created: when createHardLink fails for a secondary, the deleteDuplicate *)
(* that follows it does not delete the secondary's file.                   *)
(***************************************************************************)
C4_DeleteOnlyAfterLink ==
    Handled("HARD_LINK")
        => \A i \in LinesOf("ExcLink") : ~(i + 1 \in LinesOf("Deleted"))

(***************************************************************************)
(* C5: hard-link resolves a filename conflict in the target as move does:  *)
(* when nothing but names stands in the way (the target is writable and on *)
(* the primary's volume), every secondary gets its link, at a path of its  *)
(* own.  (Stated for groups of regular files whose secondaries lie outside *)
(* the target directory, and for names in the target that are held by      *)
(* regular files.)                                                         *)
(***************************************************************************)
C5_HardLinkResolvesNameConflict ==
    (/\ Handled("HARD_LINK")
     /\ last.target # ""
     /\ \A i \in DOMAIN last.group :
            last.group[i] \in DOMAIN last.pre /\ last.pre[last.group[i]].kind = "file"
     /\ \A sec \in Secondaries : parent_path(sec) # last.target
     /\ \A p \in DOMAIN last.pre :
            parent_path(p) = last.target => last.pre[p].kind = "file"
     /\ last.target \notin env.readonly
     /\ \A m \in MissingDirs(last.preDirs, last.target) : Parent(m) \notin env.readonly
     /\ Volume(env, last.target) = Volume(env, parent_path(Primary)))
        => /\ LinesOf("ExcLink") = {}
           /\ \A i, j \in LinesOf("Linked") : out[i].to = out[j].to => i = j

(***************************************************************************)
(* C6: a scan whose root directory cannot be opened or enumerated fails:   *)
(* findDuplicates reports a failed operation to its caller.                *)
(***************************************************************************)
C6_UnreadableRootFailsScan ==
    (last.op = "scan" /\ ~CanEnumerate(dirs, env, last.dir)) => last.failed

(***************************************************************************)
(* C7: in a recursive scan a subdirectory that cannot be enumerated costs  *)
(* only its own subtree: every healthy regular file outside it has a       *)
(* descriptor, wherever in the walk the failure happened.                  *)
(***************************************************************************)
C7_DeniedSubdirSkipsOnlySubtree ==
    (Scanned /\ recursive /\ env.noEnum # {})
        => \A p \in DOMAIN entries :
               (/\ InScope(p)
                /\ Healthy(p)
                /\ DirsBelow(parent_path(p), last.dir) \cap env.noEnum = {})
                   => p \in ScannedPaths

(***************************************************************************)
(* C8: a failure while classifying, stat-ing or hashing one entry drops    *)
(* only that entry: it has no descriptor, is in no group and has its       *)
(* diagnostic line, and every healthy regular file of the tree still has   *)
(* its descriptor.                                                         *)
(***************************************************************************)
C8_FileFailureDropsOnlyThatFile ==
    (Scanned /\ env.noEnum = {})
        => \A p \in DOMAIN entries :
               InScope(p) =>
                   /\ Healthy(p) => p \in ScannedPaths
                   /\ Failing(p) =>
                          /\ p \notin ScannedPaths
                          /\ p \notin GroupedPaths
                          /\ \E i \in LinesOf("ErrProcess") : out[i].path = p

(***************************************************************************)
(* C9: the hasher is all-or-nothing: every fingerprint a descriptor        *)
(* carries is the fingerprint of all the bytes of its file.                *)
(***************************************************************************)
C9_NoPrefixFingerprint ==
    last.op = "scan"
        => \A i \in DOMAIN scannedFiles :
               LET r == Resolve(entries, scannedFiles[i].path, MaxSymlinks)
               IN  r.kind = "file" /\ scannedFiles[i].hash = Fingerprint(algorithm, Data(r.ino))

(***************************************************************************)
(* C10: the scanner produces descriptors for regular files only: no        *)
(* descriptor's path is a symbolic link (or anything but a regular file).  *)
(***************************************************************************)
C10_OnlyRegularFilesScanned ==
    last.op = "scan"
        => \A p \in ScannedPaths : p \in DOMAIN entries /\ entries[p].kind = "file"

(***************************************************************************)
(* C11: the recursive flag selects the depth of the scan.  With recursive  *)
(* = TRUE every readable regular file in the root and in the directories   *)
(* below it has a descriptor; with recursive = FALSE a readable regular    *)
(* file has one exactly when it lies directly in the root, and no          *)
(* descriptor and no group member lies in a nested directory.  (Stated for *)
(* trees all of whose entries can be classified.)                          *)
(***************************************************************************)
C11_RecursiveFlagSelectsDepth ==
    (Scanned /\ \A q \in DOMAIN entries : StatusType(entries, q) # "error")
        => /\ \A p \in DOMAIN entries :
                  Healthy(p)
                      => IF recursive
                         THEN IsUnder(parent_path(p), last.dir) => p \in ScannedPaths
                         ELSE p \in ScannedPaths <=> parent_path(p) = last.dir
           /\ ~recursive
                  => \A p \in ScannedPaths \cup GroupedPaths : parent_path(p) = last.dir

(***************************************************************************)
(* Vocabulary of the grouping properties.                                  *)
(***************************************************************************)
\* findDuplicateGroups has run on scannedFiles
Grouped == pc = "grouped"

\* the positions of the descriptors with fingerprint h
Sharing(h) == {i \in DOMAIN scannedFiles : scannedFiles[i].hash = h}

\* the fingerprints that two or more descriptors carry
SharedHashes == {h \in {scannedFiles[i].hash : i \in DOMAIN scannedFiles} :
                    Cardinality(Sharing(h)) >= 2}

Members(g) == {g[k] : k \in DOMAIN g}

\* the position in scannedFiles of the (first) descriptor of path p
Discovery(p) ==
    CHOOSE i \in DOMAIN scannedFiles :
        /\ scannedFiles[i].path = p
        /\ \A j \in DOMAIN scannedFiles : scannedFiles[j].path = p => i <= j

\* the positions in duplicateGroups of the groups made of the descriptors with h
GroupsOf(h) ==
    {x \in DOMAIN duplicateGroups :
        Members(duplicateGroups[x]) = {scannedFiles[i].path : i \in Sharing(h)}}

(***************************************************************************)
(* C12: findDuplicateGroups emits exactly one group per fingerprint that   *)
(* two or more descriptors share, the group holds exactly the descriptors  *)
(* with that fingerprint, and a descriptor with a unique fingerprint is in *)
(* no group.                                                               *)
(***************************************************************************)
C12_OneGroupPerSharedFingerprint ==
    Grouped
        => /\ \A h \in SharedHashes :
                  /\ Cardinality(GroupsOf(h)) = 1
                  /\ \A x \in GroupsOf(h) :
                         Len(duplicateGroups[x]) = Cardinality(Sharing(h))
           /\ Len(duplicateGroups) = Cardinality(SharedHashes)
           /\ \A i \in DOMAIN scannedFiles :
                  Cardinality(Sharing(scannedFiles[i].hash)) = 1
                      => \A x \in DOMAIN duplicateGroups :
                             scannedFiles[i].path \notin Members(duplicateGroups[x])

\* two groups next to a file that is unique
C12_Witness ==
    /\ Grouped
    /\ Len(scannedFiles) = 5
    /\ Len(duplicateGroups) = 2
    /\ \E i \in DOMAIN scannedFiles : Cardinality(Sharing(scannedFiles[i].hash)) = 1

(***************************************************************************)
(* C14: the groups are ordered by descending member count.                 *)
(***************************************************************************)
C14_DescendingMemberCount ==
    Grouped
        => \A x \in 1..(Len(duplicateGroups) - 1) :
               Len(duplicateGroups[x]) >= Len(duplicateGroups[x + 1])

\* a group of three followed by a group of two
C14_Witness ==
    /\ Grouped
    /\ Len(duplicateGroups) = 2
    /\ Len(duplicateGroups[1]) = 3
    /\ Len(duplicateGroups[2]) = 2

(***************************************************************************)
(* C15: groups of equal member count appear in the order in which their    *)
(* fingerprints first appeared in scannedFiles.                            *)
(***************************************************************************)
C15_TiesInFirstAppearanceOrder ==
    Grouped
        => \A x, y \in DOMAIN duplicateGroups :
               (x < y /\ Len(duplicateGroups[x]) = Len(duplicateGroups[y]))
                   => Discovery(duplicateGroups[x][1]) < Discovery(duplicateGroups[y][1])

(***************************************************************************)
(* C16: inside every group the paths are in discovery order, so the        *)
(* primary is the first-discovered file with the group's fingerprint.      *)
(***************************************************************************)
C16_MembersInDiscoveryOrder ==
    Grouped
        => \A x \in DOMAIN duplicateGroups :
               LET g == duplicateGroups[x]
               IN  /\ \A a, b \in DOMAIN g : a < b => Discovery(g[a]) < Discovery(g[b])
                   /\ \A i \in DOMAIN scannedFiles :
                          scannedFiles[i].hash = scannedFiles[Discovery(g[1])].hash
                              => Discovery(g[1]) <= i

\* a group of three whose members were discovered with other files in between
C16_Witness ==
    /\ Grouped
    /\ \E x \in DOMAIN duplicateGroups :
          /\ Len(duplicateGroups[x]) = 3
          /\ Discovery(duplicateGroups[x][1]) = 1
          /\ Discovery(duplicateGroups[x][2]) = 3
          /\ Discovery(duplicateGroups[x][3]) = 5

\* the bytes a reader of the scanned path p gets
Content(p) == Data(Resolve(entries, p, MaxSymlinks).ino)

\* p and q are members of one group
SameGroup(p, q) ==
    \E x \in DOMAIN duplicateGroups :
        {p, q} \subseteq {duplicateGroups[x][k] : k \in DOMAIN duplicateGroups[x]}

(***************************************************************************)
(* C13: after a scan, descriptors of files with identical bytes carry      *)
(* equal fingerprints and are members of one group; two readable           *)
(* zero-byte files of the scanned tree are in one group, under MD5 and     *)
(* under SHA-256; and a descriptor whose bytes no other descriptor's file  *)
(* has is in no group.                                                     *)
(***************************************************************************)
C13_IdenticalContentGrouped ==
    Scanned
        => /\ \A i, j \in DOMAIN scannedFiles :
                  (i # j /\ Content(scannedFiles[i].path) = Content(scannedFiles[j].path))
                      => /\ scannedFiles[i].hash = scannedFiles[j].hash
                         /\ SameGroup(scannedFiles[i].path, scannedFiles[j].path)
           /\ \A p, q \in DOMAIN entries :
                  (/\ p # q
                   /\ InScope(p) /\ InScope(q)
                   /\ Healthy(p) /\ Healthy(q)
                   /\ Data(entries[p].ino) = <<>> /\ Data(entries[q].ino) = <<>>)
                      => SameGroup(p, q)
           /\ \A i \in DOMAIN scannedFiles :
                  (\A j \in DOMAIN scannedFiles :
                       j # i => Content(scannedFiles[j].path) # Content(scannedFiles[i].path))
                      => scannedFiles[i].path \notin GroupedPaths

\* the fingerprint in the descriptor of path p
HashOfPath(p) == scannedFiles[Discovery(p)].hash

(***************************************************************************)
(* C17: the session left by findDuplicates: every group has at least two   *)
(* members, each member has a descriptor, the members of one group carry   *)
(* one fingerprint, different groups carry different fingerprints, and a   *)
(* path occurs at most once in all the groups together.                    *)
(***************************************************************************)
C17_SessionInvariant ==
    /\ \A x \in DOMAIN duplicateGroups :
          LET g == duplicateGroups[x]
          IN  /\ Len(g) >= 2
              /\ \A a \in DOMAIN g : g[a] \in ScannedPaths
              /\ \A a, b \in DOMAIN g : HashOfPath(g[a]) = HashOfPath(g[b])
    /\ \A x, y \in DOMAIN duplicateGroups :
          x # y => HashOfPath(duplicateGroups[x][1]) # HashOfPath(duplicateGroups[y][1])
    /\ \A x, y \in DOMAIN duplicateGroups :
          \A a \in DOMAIN duplicateGroups[x], b \in DOMAIN duplicateGroups[y] :
              duplicateGroups[x][a] = duplicateGroups[y][b] => (x = y /\ a = b)

\* a scan that returned two groups
C17_Witness ==
    /\ last.op = "scan"
    /\ Len(duplicateGroups) = 2
    /\ Len(scannedFiles) = 4

\* the member sets of a sequence of groups
MemberSets(gs) == {{gs[x][k] : k \in DOMAIN gs[x]} : x \in DOMAIN gs}

\* the paths of a sequence of descriptors
PathsOf(files) == {files[i].path : i \in DOMAIN files}

DeleteLines == {"Deleted", "ErrDelete", "ExcDelete"}

MoveLines == {"Moved", "ExcMove"}

LinkLines == {"Linked", "ExcLink"}

C20_LinkSharesPrimaryData ==
    (Handled("HARD_LINK") /\ last.target # "")
        => \A i \in LinesOf("Linked") :
               LET l == out[i].to
                   withoutPrimary == remove(entries, NoEnv, Primary).fs
                   withoutLink == remove(entries, NoEnv, l).fs
               IN  /\ out[i].path = Primary
                   /\ l # Primary
                   /\ Primary \in DOMAIN last.pre
                   /\ {l, Primary} \subseteq DOMAIN entries
                   /\ entries[Primary] = last.pre[Primary]
                   /\ entries[l] = last.pre[Primary]
                   /\ Stored(withoutPrimary, l) = Stored(last.pre, Primary)
                   /\ Stored(withoutLink, Primary) = Stored(last.pre, Primary)

\* a link made for a secondary that was a file of its own, removed by the pass
C20_Witness ==
    /\ Handled("HARD_LINK")
    /\ last.target # ""
    /\ LinesOf("Linked") # {}
    /\ last.pre[Primary].kind = "file"
    /\ \E i \in LinesOf("Linked") :
          /\ out[i + 1].ev = "Deleted"
          /\ last.pre[out[i + 1].path].kind = "file"
          /\ last.pre[out[i + 1].path].ino # last.pre[Primary].ino
          /\ out[i].to \notin DOMAIN last.pre

(***************************************************************************)
(* C21: moveDuplicate relocates the file to target directory + filename    *)
(* when that name is free, otherwise to stem_k.ext for the smallest k >= 1 *)
(* whose name is not in the target; the target directory and its missing   *)
(* parents are created first.                                              *)
(***************************************************************************)
C21_MoveToFirstFreeName ==
    pc = "moved"
        => /\ Len(out) = 1
           /\ out[1].ev = "Moved"
           /\ \E k \in 0..(MaxSuffix + 1) :
                  /\ out[1].to = Cand(last.target, k)
                  /\ \A j \in 0..(k - 1) : Cand(last.target, j) \in DOMAIN last.pre
                  /\ Cand(last.target, k) \notin DOMAIN last.pre
           /\ MoveSource \notin DOMAIN entries
           /\ out[1].to \in DOMAIN entries
           /\ entries[out[1].to] = last.pre[MoveSource]
           /\ last.preDirs \subseteq dirs
           /\ last.target \in dirs
           /\ Parent(last.target) \in dirs \cup {"/"}

(***************************************************************************)
(* C22: the show action performs no mutation: handleDuplicates with        *)
(* SHOW_ONLY leaves every directory entry and every directory as it was,   *)
(* whatever the group and the target directory.                            *)
(***************************************************************************)
C22_ShowMutatesNothing ==
    (last.op = "handle" /\ last.action = "SHOW_ONLY")
        => entries = last.pre /\ dirs = last.preDirs

\* a show pass over a group of three with a target directory that does not exist
C22_Witness ==
    /\ Handled("SHOW_ONLY")
    /\ Len(last.group) = 3
    /\ last.target = "tgt"
    /\ "tgt" \notin dirs
    /\ Len(out) = 1

(***************************************************************************)
(* C23: an unrecognized algorithm or action identifier is rejected before  *)
(* any filesystem I/O.  A findDuplicates call with such an algorithm fails *)
(* and has processed no directory entry; a handleDuplicates call with such *)
(* an action changes nothing and reports an error.                         *)
(***************************************************************************)
C23_UnrecognizedRejectedBeforeIO ==
    /\ (last.op = "scan" /\ algorithm = Unrecognized)
           => /\ last.failed
              /\ LinesOf("Processed") \cup LinesOf("ErrProcess") \cup LinesOf("ErrScan") = {}
              /\ scannedFiles = <<>>
    /\ (last.op = "handle" /\ last.action = Unrecognized)
           => /\ entries = last.pre
              /\ dirs = last.preDirs
              /\ LinesOf("Error") # {}

\* the lines that report a failure
FailureLines == {"ErrDelete", "ExcDelete", "ExcMove", "ExcLink", "ErrProcess", "Error"}

\* a failure line names path p
FailureReported(p) == \E i \in DOMAIN out : out[i].ev \in FailureLines /\ out[i].path = p

(***************************************************************************)
(* C24: no failure is silently discarded and none is retried.  After a     *)
(* scan that ran to its end, every regular file of the scanned tree that   *)
(* has no descriptor has a per-file error line.  After a pass, every       *)
(* secondary that was not deleted (delete), not moved (move) or, when no   *)
(* target directory was given, not linked (hard-link) has a failure line;  *)
(* and no secondary has more than one delete or move attempt.              *)
(***************************************************************************)
C24_EveryFailureReported ==
    /\ (Scanned /\ LinesOf("ErrScan") = {})
           => \A p \in DOMAIN entries :
                  (InScope(p) /\ StatusType(entries, p) = "regular" /\ p \notin ScannedPaths)
                      => FailureReported(p)
    /\ Handled("DELETE")
           => \A sec \in Secondaries :
                  /\ sec \in DOMAIN entries => FailureReported(sec)
                  /\ Cardinality({i \in DOMAIN out : out[i].ev \in DeleteLines
                                                        /\ out[i].path = sec}) <= 1
    /\ Handled("MOVE")
           => \A sec \in Secondaries :
                  /\ (~\E i \in LinesOf("Moved") : out[i].path = sec) => FailureReported(sec)
                  /\ Cardinality({i \in DOMAIN out : out[i].ev \in MoveLines
                                                        /\ out[i].path = sec}) <= 1
    /\ (Handled("HARD_LINK") /\ last.target = "")
           => \A sec \in Secondaries : FailureReported(sec)

(***************************************************************************)
(* C25: in interactive mode each step of the loop reads one choice (and    *)
(* one target) and processes exactly the group the loop stands at, then    *)
(* moves to the next group or back to the menu; in automatic mode the      *)
(* target directory is read only before the first group, and every group   *)
(* of the scan is processed with the configured action and that target,    *)
(* neither of which changes during the loop.                               *)
(***************************************************************************)
C25_OnePromptPerGroup ==
    /\ [](pc = "askTarget" => gi = 1)
    /\ [][/\ pc = "interactive"
              => /\ last'.op = "handle"
                 /\ last'.group = duplicateGroups[gi]
                 /\ pc' = IF gi < Len(duplicateGroups) THEN "interactive" ELSE "menu"
                 /\ gi' = IF gi < Len(duplicateGroups) THEN gi + 1 ELSE 0
                 /\ UNCHANGED duplicateGroups
          /\ pc = "auto"
              => /\ last'.op = "handle"
                 /\ last'.group = duplicateGroups[gi]
                 /\ last'.action = defaultAction
                 /\ last'.target = targetDirectory
                 /\ pc' = IF gi < Len(duplicateGroups) THEN "auto" ELSE "menu"
                 /\ gi' = IF gi < Len(duplicateGroups) THEN gi + 1 ELSE 0
                 /\ UNCHANGED <<duplicateGroups, defaultAction, targetDirectory>>
          /\ pc' = "askTarget" => pc = "menu"]_vars

\* automatic mode reached the second group of a scan with the target read before the first
C25_Witness ==
    /\ pc = "auto" /\ gi = 2 /\ Len(duplicateGroups) = 2
    /\ Handled("MOVE") /\ last.target = "tgt" /\ targetDirectory = "tgt"
    /\ last.group = duplicateGroups[1]

(***************************************************************************)
(* C26: while the configured action is Show Only, handling a group of a    *)
(* scan leaves every scanned file in place with the data it had: none is   *)
(* deleted, moved or replaced, whatever is typed at the prompts.           *)
(***************************************************************************)
C26_ShowOnlyDestroysNothing ==
    (last.op = "handle" /\ defaultAction = "SHOW_ONLY")
        => \A p \in ScannedPaths : Stored(entries, p) = Stored(last.pre, p)

(***************************************************************************)
(* C27: the free-name check and the rename of moveDuplicate are separate   *)
(* steps.  When the conflict loop ends, nothing answers exists() at the    *)
(* chosen path; the rename that follows succeeds whatever holds that path  *)
(* by then: a file another process created there in between is replaced    *)
(* by the moved file and is left under no name.  When the path is still    *)
(* unused at the rename, every other entry is left as it was.              *)
(***************************************************************************)
C27_CheckThenRenameNotAtomic ==
    /\ (pc = "renaming" /\ last.op = "check") => ~exists(entries, destination)
    /\ (pc = "moved" /\ destination # NoPath)
           => /\ ~last.failed
              /\ MoveSource \notin DOMAIN entries
              /\ entries[destination] = last.pre[MoveSource]
              /\ \A q \in DOMAIN last.pre \ {MoveSource, destination} :
                     q \in DOMAIN entries /\ entries[q] = last.pre[q]
              /\ DOMAIN entries = (DOMAIN last.pre \ {MoveSource}) \cup {destination}
              /\ (destination \in DOMAIN last.pre /\ last.pre[destination] = WriterFile)
                     => \A q \in DOMAIN entries : entries[q] # WriterFile

\* the rename ran over a file the other process had created at the chosen path
C27_Witness ==
    /\ pc = "moved" /\ last.op = "move" /\ ~last.failed
    /\ destination \in DOMAIN last.pre /\ last.pre[destination] = WriterFile
    /\ entries[destination] = RegFile(1)
    /\ out = <<Line("Moved", MoveSource, destination)>>

(***************************************************************************)
(* C28: after a delete pass or a hard-link pass over a group of the scan,  *)
(* the bytes that could be read through the primary's path before the pass *)
(* can still be read through it, whether the members are regular files,    *)
(* hard links to one file or symbolic links to a regular file.             *)
(***************************************************************************)
C28_ContentReadableAtPrimary ==
    (Handled("DELETE") \/ Handled("HARD_LINK"))
        => LET before == Resolve(last.pre, Primary, MaxSymlinks)
               after == Resolve(entries, Primary, MaxSymlinks)
           IN  before.kind = "file"
                   => after.kind = "file" /\ Data(after.ino) = Data(before.ino)

(***************************************************************************)
(* C29: a delete, move or hard-link pass over a group leaves every         *)
(* directory entry that is not a member of the group as it was: it is      *)
(* still there, under the same name, with the same data.                   *)
(***************************************************************************)
C29_OnlyGroupAndNewNamesChange ==
    (Handled("DELETE") \/ Handled("MOVE") \/ Handled("HARD_LINK"))
        => \A p \in DOMAIN last.pre \ ({Primary} \cup Secondaries) :
               Stored(entries, p) = Stored(last.pre, p)

\* the secondaries of all groups of the last scan
AllSecondaries ==
    UNION {{duplicateGroups[g][i] : i \in 2..Len(duplicateGroups[g])} :
               g \in DOMAIN duplicateGroups}

(***************************************************************************)
(* C30: delete is a fixed point of detection.  When the secondaries of     *)
(* every group of a scan have been deleted, the next scan of the same      *)
(* directory with the same algorithm and recursive flag finds no duplicate *)
(* group, and the files it scans are the files of the previous scan        *)
(* without the deleted secondaries.  Stated for trees where the status of  *)
(* every entry can be read and the environment refuses nothing, so that    *)
(* neither scan is cut short.                                              *)
(***************************************************************************)
C30_DeleteIsFixedPoint ==
    [][(/\ pc = "menu" /\ scans >= 1 /\ scans' = scans + 1
        /\ duplicateGroups # <<>>
        /\ env = NoEnv
        /\ \A p \in DOMAIN entries : StatusType(entries, p) # "error"
        /\ AllSecondaries \cap DOMAIN entries = {}
        /\ algorithm' = algorithm /\ recursive' = recursive)
           => /\ duplicateGroups' = <<>>
              /\ ScannedPaths' = ScannedPaths \ AllSecondaries]_vars

====
